---- MODULE Spec2Model ----
(***************************************************************************)
(* Qualiscy (src/app.py): the journal catalog (load_revistas), the ranking *)
(* filter (filtrar_revistas), the Crossref retriever                       *)
(* (buscar_artigos_crossref), the report call (gerar_relatorio_ia) and the *)
(* Streamlit script run (main).                                            *)
(*                                                                         *)
(* Strings are sequences of one-character strings, so that substring and   *)
(* truthiness tests are computed, not assumed.  A table (DataFrame) is a   *)
(* record [columns, rows]; a row is a function from the column names to    *)
(* cell values; the row's index label is its position in the table.        *)
(***************************************************************************)
EXTENDS Integers, Sequences, FiniteSets, TLC

VARIABLES
    disk,            \* the CSV file at DATA_PATH
    cache,           \* what st.cache_data holds for load_revistas
    primeira,        \* the table the first successful load returned
    carregada,       \* the table the latest load_revistas call returned
    pc,              \* where the script run (or the direct call) stands
    area, subarea, palavras_chave,  \* the sidebar widgets / the arguments
    query,           \* the query handed to buscar_artigos_crossref
    revistas,        \* result of filtrar_revistas
    artigos,         \* result of buscar_artigos_crossref
    resposta,        \* what the Crossref request came to
    erro,            \* the exception that escaped, "none" if none
    falhou,          \* read_csv raised in this run
    clicou,          \* the button was pressed in this run
    leituras,        \* read_csv calls of this run
    filtros,         \* filtrar_revistas calls of this run
    pedidos,         \* requests.get calls of this run
    avisos,          \* st.warning calls of this run
    relatorios,      \* gerar_relatorio_ia calls of this run
    execucoes        \* script runs started so far

vars == <<disk, cache, primeira, carregada, pc, area, subarea, palavras_chave, query,
          revistas, artigos, resposta, erro, falhou, clicou, leituras,
          filtros, pedidos, avisos, relatorios, execucoes>>

\* ------------------------------------------------------------ bounds
MaxRows == 2
MaxItems == 2
MaxRuns == 2

\* ------------------------------------------------------------ values
\* Every scalar is a sequence of characters.  Python's None and pandas' NaN
\* (an empty CSV cell, or a value outside the categories after astype) are
\* one-element sequences holding a reserved word.
None == <<"None">>
NaN == <<"NaN">>
\* No table: read_csv gives every table at least one column.
NoTable == [columns |-> {}, rows |-> <<>>]

RangeOf(s) == {s[i] : i \in 1..Len(s)}

\* ------------------------------------------------------------ load_revistas
\* The file at DATA_PATH: missing, malformed, or holding a table under its
\* raw header names.
File(e, t) == [estado |-> e, tabela |-> t]

\* c.strip().lower() on the header names the model's files use.
NormalizeColumn(c) ==
    CASE c = " Area " -> "area"
      [] c = "ESCOPO" -> "escopo"
      [] c = "Estrato_Qualis " -> "estrato_qualis"
      [] OTHER -> c

\* df.columns = [c.strip().lower() for c in df.columns]
NormalizeTable(t) ==
    LET raw(n) == CHOOSE c \in t.columns : NormalizeColumn(c) = n
        cols == {NormalizeColumn(c) : c \in t.columns}
    IN  [columns |-> cols,
         rows |-> [i \in 1..Len(t.rows) |-> [n \in cols |-> t.rows[i][raw(n)]]]]

\* load_revistas without @st.cache_data: every call reads the file.
load_revistas_uncached(c, d) ==
    IF d.estado = "missing"
    THEN [erro |-> "FileNotFoundError", df |-> NoTable, cache |-> c, leu |-> 1]
    ELSE IF d.estado = "malformed"
    THEN [erro |-> "ParserError", df |-> NoTable, cache |-> c, leu |-> 1]
    ELSE [erro |-> "none", df |-> NormalizeTable(d.tabela),
          cache |-> NormalizeTable(d.tabela), leu |-> 1]

\* load_revistas with the read wrapped in try/except that falls back to an
\* empty table, which is then cached.
load_revistas_swallow(c, d) ==
    IF c # NoTable
    THEN [erro |-> "none", df |-> c, cache |-> c, leu |-> 0]
    ELSE IF d.estado # "ok"
    THEN [erro |-> "none", df |-> [columns |-> {"area"}, rows |-> <<>>],
          cache |-> [columns |-> {"area"}, rows |-> <<>>], leu |-> 1]
    ELSE [erro |-> "none", df |-> NormalizeTable(d.tabela),
          cache |-> NormalizeTable(d.tabela), leu |-> 1]

\* load_revistas() under @st.cache_data, with c cached and d on disk: a
\* cached table is returned without reading; else read_csv raises on a
\* missing or malformed file and nothing is cached, or the normalized table
\* is cached and returned.
load_revistas(c, d) ==
    IF c # NoTable
    THEN [erro |-> "none", df |-> c, cache |-> c, leu |-> 0]
    ELSE IF d.estado = "missing"
    THEN [erro |-> "FileNotFoundError", df |-> NoTable, cache |-> c, leu |-> 1]
    ELSE IF d.estado = "malformed"
    THEN [erro |-> "ParserError", df |-> NoTable, cache |-> c, leu |-> 1]
    ELSE [erro |-> "none", df |-> NormalizeTable(d.tabela),
          cache |-> NormalizeTable(d.tabela), leu |-> 1]

\* ------------------------------------------------------------ str.contains
\* Series.str.contains(pat, case=False, na=False): pat is a regular
\* expression searched in each cell, ignoring case; NaN cells give False.
\* The model's pattern alphabet: letters, "." (any character) and "(" (an
\* unbalanced group, which re.compile rejects with re.error).
Lower(c) == CASE c = "A" -> "a" [] c = "B" -> "b" [] OTHER -> c

ReErro(pat) == \E i \in 1..Len(pat) : pat[i] = "("

CharMatch(p, c) == p = "." \/ Lower(p) = Lower(c)

Contains(cell, pat) ==
    /\ cell # NaN
    /\ \E i \in 0..(Len(cell) - Len(pat)) :
          \A j \in 1..Len(pat) : CharMatch(pat[j], cell[i + j])

\* The .str accessor needs a string column: read_csv gives an all-empty
\* column the dtype float64, and .str then raises AttributeError.  An empty
\* table has object columns.
StrColumn(df, col) ==
    \/ Len(df.rows) = 0
    \/ \E i \in 1..Len(df.rows) : df.rows[i][col] # NaN

\* ------------------------------------------------------------ filtrar_revistas
ordem_qualis ==
    << <<"A", "1">>, <<"A", "2">>, <<"A", "3">>, <<"A", "4">>,
       <<"B", "1">>, <<"B", "2">>, <<"B", "3">>, <<"B", "4">>, <<"C">> >>

\* astype(cat_type): a value that is no category becomes NaN.
AsCategory(v) == IF v \in RangeOf(ordem_qualis) THEN v ELSE NaN

\* The sort key with na_position="first".
Code_NaNFirst(v) ==
    IF v \in RangeOf(ordem_qualis)
    THEN CHOOSE k \in 1..Len(ordem_qualis) : ordem_qualis[k] = v
    ELSE 0

\* The sort key of sort_values on the ordered categorical: the category's
\* position, NaN after all of them (na_position="last").
Code(v) ==
    IF v \in RangeOf(ordem_qualis)
    THEN CHOOSE k \in 1..Len(ordem_qualis) : ordem_qualis[k] = v
    ELSE Len(ordem_qualis) + 1

\* Python truthiness of the subarea argument: None and "" are false.
Truthy(s) == s # None /\ Len(s) > 0

\* The column the sub-topic is matched against: escopo first, else subarea,
\* else no column ("").
NarrowColumn(df) ==
    IF "escopo" \in df.columns THEN "escopo"
    ELSE IF "subarea" \in df.columns THEN "subarea"
    ELSE ""

\* The exception the mask computation raises, "none" if it raises none.
MaskErro(df, a, s) ==
    IF "area" \notin df.columns THEN "KeyError"
    ELSE IF ~StrColumn(df, "area") THEN "AttributeError"
    ELSE IF ReErro(a) THEN "re.error"
    ELSE IF Truthy(s) /\ NarrowColumn(df) # ""
         THEN IF ~StrColumn(df, NarrowColumn(df)) THEN "AttributeError"
              ELSE IF ReErro(s) THEN "re.error"
              ELSE "none"
    ELSE "none"

\* The mask with the sub-topic match assigned over the area match (mask = ...
\* in place of mask = mask & ...).
Mask_ScopeOnly(df, a, s, i) ==
    IF Truthy(s) /\ NarrowColumn(df) # ""
    THEN Contains(df.rows[i][NarrowColumn(df)], s)
    ELSE Contains(df.rows[i]["area"], a)

\* mask[i]: the area matches and, with a truthy subarea and a narrowing
\* column, that column matches too.
Mask(df, a, s, i) ==
    /\ Contains(df.rows[i]["area"], a)
    /\ (Truthy(s) /\ NarrowColumn(df) # "")
          => Contains(df.rows[i][NarrowColumn(df)], s)

\* df[mask].copy(): the selected rows, in table order, each with its index
\* label.
Select(df, a, s) ==
    LET idx == {i \in 1..Len(df.rows) : Mask(df, a, s, i)}
        F[k \in 0..Len(df.rows)] ==
            IF k = 0 THEN <<>>
            ELSE IF k \in idx
                 THEN Append(F[k - 1], [index |-> k, row |-> df.rows[k]])
                 ELSE F[k - 1]
    IN  F[Len(df.rows)]

\* filtrado["estrato_qualis"] = filtrado["estrato_qualis"].astype(cat_type)
Convert(linhas) ==
    [k \in 1..Len(linhas) |->
        [index |-> linhas[k].index,
         row |-> [c \in DOMAIN linhas[k].row |->
                    IF c = "estrato_qualis"
                    THEN AsCategory(linhas[k].row[c])
                    ELSE linhas[k].row[c]]]]

IsSorted(linhas) ==
    \A k \in 1..(Len(linhas) - 1) :
        Code(linhas[k].row["estrato_qualis"])
            <= Code(linhas[k + 1].row["estrato_qualis"])

Permutations1(n) ==
    {p \in [1..n -> 1..n] : \A i, j \in 1..n : p[i] = p[j] => i = j}

\* sort_values("estrato_qualis"): the default kind is quicksort, which is
\* not stable, so every arrangement that is sorted by the key is a possible
\* result.
SortValues(linhas) ==
    {s \in {[k \in 1..Len(linhas) |-> linhas[p[k]]] :
                p \in Permutations1(Len(linhas))} : IsSorted(s)}

\* The possible outcomes of filtrar_revistas(area, subarea) on the table df:
\* an exception, or a returned table.
filtrar_revistas(df, a, s) ==
    IF MaskErro(df, a, s) # "none"
    THEN {[erro |-> MaskErro(df, a, s), linhas |-> <<>>]}
    ELSE IF "estrato_qualis" \in df.columns
         THEN {[erro |-> "none", linhas |-> l] :
                    l \in SortValues(Convert(Select(df, a, s)))}
         ELSE {[erro |-> "none", linhas |-> Select(df, a, s)]}

\* ------------------------------------------------------------ JSON values
\* A JSON value is a pair <<tag, value>>: a key the mapping does not have,
\* null (Python's None), a string, a number, a list of JSON values, or a
\* mapping (a record of JSON values).
JAbsent == <<"absent", "">>
JNull == <<"null", "">>
JStr(s) == <<"str", s>>
JNum(n) == <<"num", n>>
JList(l) == <<"list", l>>
JMap(m) == <<"map", m>>
Tag(x) == x[1]
Val(x) == x[2]

\* x[0] raises unless x is a non-empty list.
CanIndex0(x) == Tag(x) = "list" /\ Len(Val(x)) > 0

\* ------------------------------------------------------------ buscar_artigos_crossref
\* What the Crossref request can come to.  The kinds of CaughtKinds fail
\* inside the try block (requests.get, raise_for_status, resp.json, the two
\* .get calls); "no_message" and "no_items" give the defaults {} and [];
\* "items_null" is a body {"message": {"items": null}}; "items" carries the
\* list of work items.
CaughtKinds ==
    {"timeout", "http_error", "not_json", "body_not_mapping", "message_null"}

NoResposta == [kind |-> "none", items |-> <<>>]

\* it[key]["date-parts"][0][0] raises: it[key] is no mapping, has no
\* date-parts, or date-parts or its first element is not a non-empty list.
DateRaises(d) ==
    \/ Tag(d) # "map"
    \/ Tag(Val(d).date_parts) = "absent"
    \/ ~CanIndex0(Val(d).date_parts)
    \/ ~CanIndex0(Val(Val(d).date_parts)[1])

\* (the keys "published-print" and "published-online", written as field names)
DateKeys == <<"published_print", "published_online", "issued">>

\* ano after the loop over the three keys, from key k on: a key that is
\* present and does not raise ends the loop with its leading component,
\* whatever that is; a key that raises is passed over.
RECURSIVE AnoFrom(_, _)
AnoFrom(it, k) ==
    IF k > Len(DateKeys) THEN JNull
    ELSE IF Tag(Val(it)[DateKeys[k]]) = "absent" THEN AnoFrom(it, k + 1)
    ELSE IF DateRaises(Val(it)[DateKeys[k]]) THEN AnoFrom(it, k + 1)
    ELSE Val(Val(Val(Val(it)[DateKeys[k]]).date_parts)[1])[1]

Ano(it) == AnoFrom(it, 1)

\* The exception the loop body raises on an item, outside the try block:
\* it.get on a non-mapping, [0] on a null or empty title.
ItemErro(it) ==
    IF Tag(it) # "map" THEN "AttributeError"
    ELSE IF Tag(Val(it).title) = "absent" THEN "none"
    ELSE IF Tag(Val(it).title) = "null" THEN "TypeError"
    ELSE IF ~CanIndex0(Val(it).title) THEN "IndexError"
    ELSE "none"

SemTitulo == JStr("Sem titulo")

\* it.get("title", ["Sem titulo"])[0]
Titulo(it) ==
    IF Tag(Val(it).title) = "absent" THEN SemTitulo ELSE Val(Val(it).title)[1]

\* it.get("DOI"): None when the key is absent.
Doi(it) == IF Tag(Val(it).DOI) = "absent" THEN JNull ELSE Val(it).DOI

\* f"https://doi.org/{doi}" if doi else None: None and "" are false.
Link(it) ==
    IF Tag(Doi(it)) = "str" /\ Val(Doi(it)) # ""
    THEN <<"url", <<"https://doi.org/", Val(Doi(it))>> >>
    ELSE JNull

Normalizar(it) ==
    [titulo |-> Titulo(it), ano |-> Ano(it), doi |-> Doi(it), link |-> Link(it)]

\* The loop over items: the first item that raises ends the call with its
\* exception, else every item is appended in turn.
RECURSIVE LoopErro(_, _)
LoopErro(items, k) ==
    IF k > Len(items) THEN "none"
    ELSE IF ItemErro(items[k]) # "none" THEN ItemErro(items[k])
    ELSE LoopErro(items, k + 1)

Artigos(items) == [k \in 1..Len(items) |-> Normalizar(items[k])]

\* buscar_artigos_crossref(query, rows) when the service answers resp: the
\* exception that escapes ("none" if the call returns), the returned list,
\* the number of requests sent and of warnings shown.
buscar_artigos_crossref(q, resp) ==
    IF Len(q) = 0
    THEN [erro |-> "none", artigos |-> <<>>, pedidos |-> 0, avisos |-> 0]
    ELSE IF resp.kind \in CaughtKinds
    THEN [erro |-> "none", artigos |-> <<>>, pedidos |-> 1, avisos |-> 1]
    ELSE IF resp.kind \in {"no_message", "no_items"}
    THEN [erro |-> "none", artigos |-> <<>>, pedidos |-> 1, avisos |-> 0]
    ELSE IF resp.kind = "items_null"
    THEN [erro |-> "TypeError", artigos |-> <<>>, pedidos |-> 1, avisos |-> 0]
    ELSE IF LoopErro(resp.items, 1) # "none"
    THEN [erro |-> LoopErro(resp.items, 1), artigos |-> <<>>,
          pedidos |-> 1, avisos |-> 0]
    ELSE [erro |-> "none", artigos |-> Artigos(resp.items),
          pedidos |-> 1, avisos |-> 0]

\* ------------------------------------------------------------ input domains
AreaCells == {<<"a">>, <<"A", "b">>, NaN}
ScopeCells == {<<"a">>, <<"b">>, NaN}
TierCells == {<<"A", "2">>, <<"B", "1">>, <<"B", "5">>, NaN}

SeqsUpTo(S, n) == UNION {[1..k -> S] : k \in 0..n}

\* The tables with the columns cols and up to MaxRows rows drawn from R.
TablesOf(cols, R) ==
    {[columns |-> cols, rows |-> rs] : rs \in SeqsUpTo(R, MaxRows)}

\* The catalogs: with and without a tier column, with escopo, subarea, both
\* or neither, and one without an area column.
Tables ==
    TablesOf({"area"}, [area : AreaCells])
    \cup TablesOf({"area", "estrato_qualis"},
                  [area : AreaCells, estrato_qualis : TierCells])
    \cup TablesOf({"area", "escopo"}, [area : AreaCells, escopo : ScopeCells])
    \cup TablesOf({"area", "subarea"}, [area : AreaCells, subarea : ScopeCells])
    \cup TablesOf({"area", "escopo", "estrato_qualis"},
                  [area : {<<"a">>, <<"A", "b">>}, escopo : {<<"a">>, NaN},
                   estrato_qualis : TierCells])
    \cup TablesOf({"area", "escopo", "subarea"},
                  [area : {<<"a">>, <<"A", "b">>}, escopo : {<<"a">>, <<"b">>},
                   subarea : {<<"a">>, NaN}])
    \cup TablesOf({"estrato_qualis"},
                  [estrato_qualis : {<<"A", "2">>, <<"B", "5">>}])

AreaArgs == {<<>>, <<"a">>, <<"b">>, <<".">>, <<"(">>}
SubareaArgs == {None, <<>>, <<"a">>, <<"B">>, <<"(">>}

\* ------------------------------------------------------------ filter calls
\* A direct call filtrar_revistas(area, subarea) against a loaded catalog.
InitFilter ==
    /\ cache \in Tables
    /\ disk = File("ok", cache)
    /\ primeira = cache
    /\ carregada = NoTable
    /\ falhou = FALSE
    /\ clicou = FALSE
    /\ leituras = 0
    /\ filtros = 0
    /\ execucoes = 0
    /\ area \in AreaArgs
    /\ subarea \in SubareaArgs
    /\ palavras_chave = None
    /\ query = None
    /\ pc = "filtrar"
    /\ revistas = <<>>
    /\ artigos = <<>>
    /\ resposta = NoResposta
    /\ pedidos = 0
    /\ avisos = 0
    /\ relatorios = 0
    /\ erro = "none"

Filtrar ==
    /\ pc = "filtrar"
    /\ carregada' = cache
    /\ \E res \in filtrar_revistas(cache, area, subarea) :
          /\ revistas' = res.linhas
          /\ erro' = res.erro
    /\ filtros' = filtros + 1
    /\ pc' = "retornou"
    /\ UNCHANGED <<disk, cache, primeira, area, subarea, palavras_chave, query,
                   artigos, resposta, falhou, clicou, leituras, pedidos,
                   avisos, relatorios, execucoes>>

NextFilter == Filtrar

SpecFilter == InitFilter /\ [][NextFilter]_vars

\* ------------------------------------------------------------ search inputs
DateParts(p) == JMap([date_parts |-> p])
Parts(l) == JList(<<JList(l)>>)

PrintDates ==
    {JAbsent, JStr("2018"), DateParts(Parts(<<JNull>>)),
     DateParts(Parts(<<JNum(2018)>>))}
OnlineDates ==
    {JAbsent, DateParts(JList(<<>>)), DateParts(Parts(<<JNum(2019), JNum(5)>>))}
IssuedDates ==
    {JAbsent, DateParts(JAbsent), DateParts(Parts(<<>>)),
     DateParts(Parts(<<JNum(2020), JNum(5)>>))}

Item(ti, d, pp, po, is) ==
    JMap([title |-> ti, DOI |-> d,
          published_print |-> pp, published_online |-> po, issued |-> is])

Items ==
    {Item(JList(<<JStr("T")>>), JStr("d"), pp, po, is) :
        pp \in PrintDates, po \in OnlineDates, is \in IssuedDates}
    \cup {Item(ti, d, JAbsent, JAbsent, JAbsent) :
        ti \in {JAbsent, JNull, JList(<<>>), JList(<<JStr("T"), JStr("U")>>)},
        d \in {JAbsent, JStr(""), JStr("d")}}
    \cup {JStr("x")}

Respostas ==
    {[kind |-> k, items |-> <<>>] :
        k \in CaughtKinds \cup {"no_message", "no_items", "items_null"}}
    \cup {[kind |-> "items", items |-> its] : its \in SeqsUpTo(Items, MaxItems)}

QueryArgs == {<<>>, <<" ">>, <<" ", " ">>, <<"q">>}

\* A direct call buscar_artigos_crossref(query, rows); the service's answer
\* is chosen when the request is sent.
InitSearch ==
    /\ query \in QueryArgs
    /\ cache = NoTable
    /\ disk = File("missing", NoTable)
    /\ primeira = NoTable
    /\ carregada = NoTable
    /\ falhou = FALSE
    /\ clicou = FALSE
    /\ leituras = 0
    /\ filtros = 0
    /\ execucoes = 0
    /\ area = None
    /\ subarea = None
    /\ palavras_chave = None
    /\ pc = "buscar"
    /\ revistas = <<>>
    /\ artigos = <<>>
    /\ resposta = NoResposta
    /\ pedidos = 0
    /\ avisos = 0
    /\ relatorios = 0
    /\ erro = "none"

BuscarVazio ==
    /\ pc = "buscar"
    /\ Len(query) = 0
    /\ LET r == buscar_artigos_crossref(query, NoResposta)
       IN  /\ artigos' = r.artigos
           /\ erro' = r.erro
           /\ pedidos' = pedidos + r.pedidos
           /\ avisos' = avisos + r.avisos
    /\ pc' = "retornou"
    /\ UNCHANGED <<disk, cache, primeira, carregada, area, subarea, palavras_chave,
                   query, revistas, resposta, falhou, clicou, leituras,
                   filtros, relatorios, execucoes>>

BuscarPedido ==
    /\ pc = "buscar"
    /\ Len(query) > 0
    /\ \E resp \in Respostas :
          LET r == buscar_artigos_crossref(query, resp)
          IN  /\ resposta' = resp
              /\ artigos' = r.artigos
              /\ erro' = r.erro
              /\ pedidos' = pedidos + r.pedidos
              /\ avisos' = avisos + r.avisos
    /\ pc' = "retornou"
    /\ UNCHANGED <<disk, cache, primeira, carregada, area, subarea, palavras_chave,
                   query, revistas, falhou, clicou, leituras, filtros,
                   relatorios, execucoes>>

NextSearch == BuscarVazio \/ BuscarPedido

SpecSearch == InitSearch /\ [][NextSearch]_vars

\* ------------------------------------------------------------ main
\* str.strip() on a text of letters and blanks.
RECURSIVE LStrip(_)
LStrip(s) == IF Len(s) > 0 /\ Head(s) = " " THEN LStrip(Tail(s)) ELSE s
RECURSIVE RStrip(_)
RStrip(s) ==
    IF Len(s) > 0 /\ s[Len(s)] = " " THEN RStrip(SubSeq(s, 1, Len(s) - 1)) ELSE s
Strip(s) == RStrip(LStrip(s))

\* sorted(load_revistas()["area"].dropna().unique().tolist()), as a set: the
\* selectbox offers these and returns None when there are none.
AreasPossiveis(t) ==
    {t.rows[i]["area"] : i \in 1..Len(t.rows)} \ {NaN}

AreaChoices(t) == IF AreasPossiveis(t) = {} THEN {None} ELSE AreasPossiveis(t)

\* f"{area} {subarea or ''} {palavras_chave}"
Query(a, s, k) == a \o <<" ">> \o (IF Truthy(s) THEN s ELSE <<>>) \o <<" ">> \o k

\* The files the model puts at DATA_PATH.
DiskRows ==
    {[area |-> <<"a">>, escopo |-> <<"a">>, estrato_qualis |-> <<"B", "5">>],
     [area |-> <<"A", "b">>, escopo |-> NaN, estrato_qualis |-> <<"A", "2">>]}

DiskFiles ==
    {File("missing", NoTable), File("malformed", NoTable)}
    \cup {File("ok", [columns |-> {"area", "escopo", "estrato_qualis"}, rows |-> rs]) :
            rs \in SeqsUpTo(DiskRows, MaxRows)}
    \cup {File("ok", [columns |-> {" Area ", "ESCOPO"},
                      rows |-> << (" Area " :> <<"b">> @@ "ESCOPO" :> <<"b">>) >>]),
           File("ok", [columns |-> {"Estrato_Qualis "},
                      rows |-> << ("Estrato_Qualis " :> <<"C">>) >>])}

SubareaInputs == {<<>>, <<"a">>, <<"(">>}
PalavrasInputs == {<<>>, <<" ">>, <<"k">>}

RespostasMain ==
    {[kind |-> "timeout", items |-> <<>>],
     [kind |-> "no_items", items |-> <<>>],
     [kind |-> "items_null", items |-> <<>>],
     [kind |-> "items", items |-> <<>>],
     [kind |-> "items",
      items |-> <<Item(JList(<<JStr("T")>>), JStr("d"), JAbsent, JAbsent,
                       DateParts(Parts(<<JNum(2020), JNum(5)>>)))>>],
     [kind |-> "items",
      items |-> <<Item(JList(<<>>), JStr("d"), JAbsent, JAbsent, JAbsent)>>]}

Init ==
    /\ disk \in DiskFiles
    /\ cache = NoTable
    /\ primeira = NoTable
    /\ carregada = NoTable
    /\ pc = "idle"
    /\ area = None
    /\ subarea = None
    /\ palavras_chave = None
    /\ query = None
    /\ revistas = <<>>
    /\ artigos = <<>>
    /\ resposta = NoResposta
    /\ erro = "none"
    /\ falhou = FALSE
    /\ clicou = FALSE
    /\ leituras = 0
    /\ filtros = 0
    /\ pedidos = 0
    /\ avisos = 0
    /\ relatorios = 0
    /\ execucoes = 0

EntreExecucoes == pc \in {"idle", "done", "abortada", "fim"}

\* The file at DATA_PATH is replaced between two script runs.
FileChange ==
    /\ EntreExecucoes
    /\ execucoes < MaxRuns
    /\ disk' \in DiskFiles \ {disk}
    /\ UNCHANGED <<cache, primeira, carregada, pc, area, subarea,
                   palavras_chave, query, revistas, artigos, resposta, erro,
                   falhou, clicou, leituras, filtros, pedidos, avisos,
                   relatorios, execucoes>>

\* A script run starts: the per-run state is fresh, and line 226 calls
\* load_revistas() and reads its "area" column; an exception there ends the
\* run.  Then the sidebar widgets take their values.
Topo ==
    /\ EntreExecucoes
    /\ execucoes < MaxRuns
    /\ execucoes' = execucoes + 1
    /\ LET r == load_revistas(cache, disk)
           e == IF r.erro # "none" THEN r.erro
                ELSE IF "area" \notin r.df.columns THEN "KeyError"
                ELSE "none"
       IN  /\ cache' = r.cache
           /\ carregada' = r.df
           /\ primeira' = IF primeira = NoTable THEN r.df ELSE primeira
           /\ leituras' = r.leu
           /\ falhou' = (cache = NoTable /\ disk.estado # "ok")
           /\ erro' = e
           /\ IF e # "none"
              THEN /\ pc' = "abortada"
                   /\ area' = None
                   /\ subarea' = None
                   /\ palavras_chave' = None
              ELSE /\ pc' = "botao"
                   /\ area' \in AreaChoices(r.df)
                   /\ subarea' \in SubareaInputs
                   /\ palavras_chave' \in PalavrasInputs
    /\ query' = None
    /\ revistas' = <<>>
    /\ artigos' = <<>>
    /\ resposta' = NoResposta
    /\ clicou' = FALSE
    /\ filtros' = 0
    /\ pedidos' = 0
    /\ avisos' = 0
    /\ relatorios' = 0
    /\ UNCHANGED disk

\* st.button(...) is False: the run ends.
NaoClicar ==
    /\ pc = "botao"
    /\ pc' = "fim"
    /\ UNCHANGED <<disk, cache, primeira, carregada, area, subarea,
                   palavras_chave, query, revistas, artigos, resposta, erro,
                   falhou, clicou, leituras, filtros, pedidos, avisos,
                   relatorios, execucoes>>

\* The button is pressed with no area: a warning, and main returns.
ClicarSemArea ==
    /\ pc = "botao"
    /\ ~Truthy(area)
    /\ clicou' = TRUE
    /\ avisos' = avisos + 1
    /\ pc' = "fim"
    /\ UNCHANGED <<disk, cache, primeira, carregada, area, subarea,
                   palavras_chave, query, revistas, artigos, resposta, erro,
                   falhou, leituras, filtros, pedidos, relatorios, execucoes>>

\* 1. revistas = filtrar_revistas(area, subarea): it calls load_revistas()
\* itself; an exception ends the run; an empty result shows a warning.
FiltrarPasso ==
    /\ pc = "botao"
    /\ Truthy(area)
    /\ clicou' = TRUE
    /\ filtros' = filtros + 1
    /\ LET r == load_revistas(cache, disk)
       IN  /\ cache' = r.cache
           /\ carregada' = r.df
           /\ leituras' = leituras + r.leu
           /\ \E res \in filtrar_revistas(r.df, area, subarea) :
                 /\ revistas' = res.linhas
                 /\ erro' = res.erro
                 /\ pc' = IF res.erro # "none" THEN "abortada" ELSE "artigos"
                 /\ avisos' = IF res.erro = "none" /\ Len(res.linhas) = 0
                               THEN avisos + 1 ELSE avisos
    /\ UNCHANGED <<disk, primeira, area, subarea, palavras_chave, query,
                   artigos, resposta, falhou, pedidos, relatorios, execucoes>>

\* 2. with keywords, artigos = buscar_artigos_crossref(query, num_artigos);
\* an exception that escapes it ends the run.
BuscarPasso ==
    /\ pc = "artigos"
    /\ Truthy(Strip(palavras_chave))
    /\ query' = Query(area, subarea, palavras_chave)
    /\ \E resp \in RespostasMain :
          LET r == buscar_artigos_crossref(Query(area, subarea, palavras_chave), resp)
          IN  /\ resposta' = resp
              /\ artigos' = r.artigos
              /\ erro' = r.erro
              /\ pedidos' = pedidos + r.pedidos
              /\ avisos' = avisos + r.avisos
              /\ pc' = IF r.erro # "none" THEN "abortada" ELSE "gerar"
    /\ UNCHANGED <<disk, cache, primeira, carregada, area, subarea,
                   palavras_chave, revistas, falhou, clicou, leituras,
                   filtros, relatorios, execucoes>>

\* 2. without keywords, artigos = [].
SemPalavras ==
    /\ pc = "artigos"
    /\ ~Truthy(Strip(palavras_chave))
    /\ artigos' = <<>>
    /\ pc' = "gerar"
    /\ UNCHANGED <<disk, cache, primeira, carregada, area, subarea,
                   palavras_chave, query, revistas, resposta, erro, falhou,
                   clicou, leituras, filtros, pedidos, avisos, relatorios,
                   execucoes>>

\* 3. gerar_relatorio_ia(...) is called with revistas and artigos; the
\* OpenAI call returns the report or raises.
GerarRelatorio ==
    /\ pc = "gerar"
    /\ relatorios' = relatorios + 1
    /\ \E e \in {"none", "OpenAIError"} :
          /\ erro' = e
          /\ pc' = IF e = "none" THEN "done" ELSE "abortada"
    /\ UNCHANGED <<disk, cache, primeira, carregada, area, subarea,
                   palavras_chave, query, revistas, artigos, resposta, falhou,
                   clicou, leituras, filtros, pedidos, avisos, execucoes>>

Next ==
    \/ FileChange
    \/ Topo
    \/ NaoClicar
    \/ ClicarSemArea
    \/ FiltrarPasso
    \/ BuscarPasso
    \/ SemPalavras
    \/ GerarRelatorio

Spec == Init /\ [][Next]_vars

\* ------------------------------------------------------------ properties
Recognized(v) == v \in RangeOf(ordem_qualis)
Position(v) == CHOOSE k \in 1..Len(ordem_qualis) : ordem_qualis[k] = v
CatalogTier(k) == cache.rows[revistas[k].index]["estrato_qualis"]
Returned == pc = "retornou"

\* The table with every quality tier replaced by a recognized one.
AllA1(t) ==
    [columns |-> t.columns,
     rows |-> [i \in 1..Len(t.rows) |->
                 [c \in t.columns |->
                    IF c = "estrato_qualis" THEN <<"A", "1">> ELSE t.rows[i][c]]]]

\* C1: with an estrato_qualis column, the rows filtrar_revistas returns are
\* non-decreasing under A1<A2<A3<A4<B1<B2<B3<B4<C by their catalog tier, every
\* row with an unrecognized or missing tier comes after every row with a
\* recognized one, and the call raises only what it raises on the same
\* catalog with recognized tiers.
C1_SortedByTier ==
    (Returned /\ "estrato_qualis" \in cache.columns) =>
        /\ erro = "none" =>
              \A k, l \in 1..Len(revistas) :
                 k < l =>
                    /\ Recognized(CatalogTier(l)) => Recognized(CatalogTier(k))
                    /\ Recognized(CatalogTier(l)) =>
                          Position(CatalogTier(k)) <= Position(CatalogTier(l))
        /\ \A res \in filtrar_revistas(AllA1(cache), area, subarea) :
              res.erro = erro

\* C1 witness: a returned table of two rows, one with the unrecognized tier
\* B5 and one recognized, put in the other order than the catalog's.
C1_Witness ==
    /\ Returned
    /\ erro = "none"
    /\ "estrato_qualis" \in cache.columns
    /\ Len(revistas) = 2
    /\ CatalogTier(2) = <<"B", "5">>
    /\ Recognized(CatalogTier(1))
    /\ revistas[1].index > revistas[2].index

\* C7: with a scope or subarea column and a non-empty sub_topic, every row of
\* filtrar_revistas(area, sub_topic) is a row of filtrar_revistas(area, None);
\* with neither column the two calls give the same rows (or the same
\* exception).
C7_Narrowing ==
    Returned =>
        /\ (Truthy(subarea) /\ NarrowColumn(cache) # "" /\ erro = "none") =>
              \A res \in filtrar_revistas(cache, area, None) :
                 /\ res.erro = "none"
                 /\ RangeOf(revistas) \subseteq RangeOf(res.linhas)
        /\ NarrowColumn(cache) = "" =>
              \A res \in filtrar_revistas(cache, area, None) :
                 /\ res.erro = erro
                 /\ RangeOf(res.linhas) = RangeOf(revistas)

\* C7 witness: a sub_topic that keeps some rows of the area and drops others.
C7_Witness ==
    /\ Returned
    /\ erro = "none"
    /\ Truthy(subarea)
    /\ NarrowColumn(cache) # ""
    /\ Len(revistas) >= 1
    /\ \E res \in filtrar_revistas(cache, area, None) :
          Len(res.linhas) > Len(revistas)

\* C10: the rows filtrar_revistas returns are exactly the catalog rows that
\* match, each once, and every field of a returned row, the quality tier
\* included, has the value the row has in the catalog.
C10_RowsPassThrough ==
    (Returned /\ erro = "none") =>
        /\ {revistas[k].index : k \in 1..Len(revistas)}
              = {i \in 1..Len(cache.rows) : Mask(cache, area, subarea, i)}
        /\ \A k, l \in 1..Len(revistas) :
              revistas[k].index = revistas[l].index => k = l
        /\ \A k \in 1..Len(revistas) :
              revistas[k].row = cache.rows[revistas[k].index]

IsBlank(q) == \A i \in 1..Len(q) : q[i] = " "

\* C2: buscar_artigos_crossref never raises, whatever the request comes to;
\* when the request or the parse fails, it returns the empty list and shows
\* one warning.
C2_SearchNeverRaises ==
    Returned =>
        /\ erro = "none"
        /\ resposta.kind \in CaughtKinds => (artigos = <<>> /\ avisos = 1)

\* C3: a call whose query is empty or only whitespace returns the empty list
\* and sends no request.
C3_BlankQueryNoRequest ==
    (Returned /\ IsBlank(query)) => (artigos = <<>> /\ pedidos = 0)

\* The date field yields a year: it is present, the extraction does not
\* raise, and the leading component is a number.
YieldsYear(d) ==
    /\ Tag(d) # "absent"
    /\ ~DateRaises(d)
    /\ Tag(Val(Val(Val(d).date_parts)[1])[1]) = "num"

\* The year of the first date field, in the order published-print,
\* published-online, issued, that yields one; null when none does.
FirstYear(it) ==
    IF \E k \in 1..Len(DateKeys) : YieldsYear(Val(it)[DateKeys[k]])
    THEN LET k == CHOOSE j \in 1..Len(DateKeys) :
                    /\ YieldsYear(Val(it)[DateKeys[j]])
                    /\ \A i \in 1..(j - 1) : ~YieldsYear(Val(it)[DateKeys[i]])
         IN  Val(Val(Val(Val(it)[DateKeys[k]]).date_parts)[1])[1]
    ELSE JNull

\* C4: each returned record's year is the year of the first date field that
\* yields one (a field that is malformed, has empty date-parts or a null year
\* is passed over), and is absent exactly when no field yields a year.
C4_YearFirstParsable ==
    (Returned /\ erro = "none" /\ resposta.kind = "items") =>
        \A k \in 1..Len(artigos) : artigos[k].ano = FirstYear(resposta.items[k])

NoDateField(it) ==
    \A k \in 1..Len(DateKeys) : Tag(Val(it)[DateKeys[k]]) = "absent"

\* C9: when the service answers with a list of k items, the call returns k
\* records, the i-th being the normalization of the i-th item, and an item
\* with no date field gives a record with no year.
C9_OneRecordPerItem ==
    (Returned /\ resposta.kind = "items") =>
        /\ erro = "none"
        /\ Len(artigos) = Len(resposta.items)
        /\ \A i \in 1..Len(artigos) :
              /\ artigos[i] = Normalizar(resposta.items[i])
              /\ NoDateField(resposta.items[i]) => artigos[i].ano = JNull

\* C5: a run in which the catalog loaded, the button was pressed and area is
\* non-empty ends with gerar_relatorio_ia called exactly once, after the
\* filter, whatever the filter and the search came to.
C5_SynthesizerAlwaysCalled ==
    (clicou /\ Truthy(area) /\ pc \in {"done", "abortada"}) =>
        (relatorios = 1 /\ filtros = 1)

\* C6: when read_csv fails, the exception leaves main at once: the run is
\* aborted with that exception, the file was read once, nothing is cached or
\* returned, and the run filters nothing, sends no request and calls no
\* synthesizer.
C6_LoadFailureAborts ==
    falhou =>
        /\ pc = "abortada"
        /\ erro \in {"FileNotFoundError", "ParserError"}
        /\ cache = NoTable
        /\ carregada = NoTable
        /\ leituras = 1
        /\ ~clicou
        /\ filtros = 0
        /\ pedidos = 0
        /\ relatorios = 0

\* C6 witness: a second run that fails on a malformed file after a first run
\* failed on a missing one.
C6_Witness ==
    /\ falhou
    /\ execucoes = 2
    /\ disk.estado = "malformed"
    /\ erro = "ParserError"

\* C8: once a load has succeeded, the cached table and the table every later
\* load_revistas call returns equal the first one, whatever ran since.
C8_CatalogWriteOnce ==
    primeira # NoTable => (cache = primeira /\ carregada = primeira)

\* C8 witness: a second run completes on the cached table after the file
\* went missing; its filter result shows the tier B5 as NaN while the catalog
\* still holds B5.
C8_Witness ==
    /\ execucoes = 2
    /\ pc = "done"
    /\ disk.estado = "missing"
    /\ primeira # NoTable
    /\ "estrato_qualis" \in cache.columns
    /\ \E k \in 1..Len(revistas) :
          /\ revistas[k].row["estrato_qualis"] = NaN
          /\ CatalogTier(k) = <<"B", "5">>

====
